---- MODULE Spec2Model ----
(***************************************************************************)
(* Model of the CAN mapping engine of libopeninv (src/src/canmap.cpp) and  *)
(* of the part of the message dispatcher it uses (src/src/canhardware.cpp).*)
(* The state is the two message tables, the shared binding pool, the flash *)
(* image, the parameter store and the dispatcher's acceptance list.  Every *)
(* public operation of CanMap is one action; the loops of the source are   *)
(* recursive operators that mutate a copy of the tables in source order.   *)
(***************************************************************************)
EXTENDS Integers, Sequences, FiniteSets, TLC

\* ------------------------------------------------------------------ bounds
\* Build-time configuration of canmap.h, scaled down.
MAX_MESSAGES == 2
MAX_ITEMS == 3
\* Number of parameters of the enumeration (Param::PARAM_LAST).
PARAM_LAST == 2
\* Number of operations of one explored run of each specification.
MaxOps == 3
MaxTableOps == 5
MaxPersistOps == 5
MaxDispatchOps == 4
MaxCodecOps == 3
MaxAcceptOps == 4

\* ------------------------------------------------------- program constants
ITEM_UNSET == 255
MAX_CAN_ID == 536870911
SDO_WRITE == 64
SDO_READ == 34
SDO_ABORT == 128
SDO_WRITE_REPLY == 35
SDO_READ_REPLY == 67
SDO_ERR_INVIDX == 100794368
SDO_ERR_RANGE == 101253168
SDO_REQ_BASE == 1536
SDO_REP_BASE == 1408
nodeId == 1

\* Result codes of canmap.h (add returns one of them, or the message count).
CAN_ERR_INVALID_ID == -1
CAN_ERR_INVALID_OFS == -2
CAN_ERR_INVALID_LEN == -3
CAN_ERR_MAXMESSAGES == -4
CAN_ERR_MAXITEMS == -5

\* Null pointers of the source (CANIDMAP* 0, CANPOS* 0).
NoMap == -1
NoItem == -1

\* ------------------------------------------------------------ input sets
\* Valid identifiers and one over the 29 bits.
FirstCanId == 513
CanIds == FirstCanId .. (FirstCanId + 1)
BadCanId == MAX_CAN_ID + 1
Params == 0 .. (PARAM_LAST - 1)
\* <<offsetBits, length, gain, offset>> handed to add: a low-word field, a
\* high-word field with gain and offset, an offset of 64 and a width of 33.
AddInputs == { <<0, 8, 1, 0>>, <<40, 8, 2, 1>>, <<64, 8, 1, 0>>, <<0, 33, 1, 0>> }
\* The calls of add: <<param, canId, <<offsetBits, length, gain, offset>>>>.
AddCalls == Params \X (CanIds \cup {BadCanId}) \X AddInputs
\* The valid calls in which the parameter decides the field: even parameters
\* take the low-word field, odd ones the high-word field.
FieldOf(param) == IF param % 2 = 0 THEN <<0, 8, 1, 0>> ELSE <<40, 8, 2, 1>>
FewAddCalls == { <<p, id, FieldOf(p)>> : p \in Params, id \in CanIds }
\* The valid calls and, for the first parameter, one call for each way the
\* arguments can be invalid.
TableAddCalls ==
  FewAddCalls \cup { <<0, BadCanId, <<0, 8, 1, 0>>>>,
                     <<0, FirstCanId, <<64, 8, 1, 0>>>>,
                     <<0, FirstCanId, <<0, 33, 1, 0>>>> }
\* Bit patterns of memory the constructor does not initialise.
Junk == {0, 1}

Min(S) == CHOOSE x \in S : \A y \in S : x <= y

MsgIdx == 0 .. (MAX_MESSAGES - 1)
ItemIdx == 0 .. (MAX_ITEMS - 1)

VARIABLES
  canSendMap,   \* CANIDMAP canSendMap[MAX_MESSAGES]
  canRecvMap,   \* CANIDMAP canRecvMap[MAX_MESSAGES]
  canPosMap,    \* CANPOS canPosMap[MAX_ITEMS + 1], the last one is the tail
  isSaving,     \* the busy flag
  flash,        \* the words of the flash page: send, receive, pool, checksum
  paramIds,     \* Param::GetAttrib(e)->id of the running firmware build
  params,       \* the parameter store, raw fixed-point values
  userIds,      \* the dispatcher's acceptance list (userIds[0..next-1])
  recvCallback, \* the dispatcher's consumers (recvCallback[0..nextCallbackIndex-1])
  sent,         \* the frames the last operation handed to Send
  op,           \* the last operation and its result
  snap,         \* the tables as they were when the last save began
  addsOnly,     \* no remove since the tables were last empty
  credit,       \* bindings unlinked by a remove from a full pool, not yet re-added
  steps

vars == <<canSendMap, canRecvMap, canPosMap, isSaving, flash, paramIds, params,
          userIds, recvCallback, sent, op, snap, addsOnly, credit, steps>>

\* ------------------------------------------------------------ iteration
\* forEachCanMap: the entries visited, a prefix of the table that ends at
\* the first entry whose head is MAX_ITEMS.
RECURSIVE VisitedFrom(_, _)
VisitedFrom(map, i) ==
  IF i < MAX_MESSAGES /\ map[i].first # MAX_ITEMS
    THEN <<i>> \o VisitedFrom(map, i + 1)
    ELSE <<>>

forEachCanMap(map) == VisitedFrom(map, 0)

\* forEachPosMap: the slots visited from a head, following next until a
\* slot whose own link is ITEM_UNSET (the tail slot MAX_ITEMS, or a free one).
RECURSIVE forEachPosMap(_, _)
forEachPosMap(pos, c) ==
  IF pos[c].next = ITEM_UNSET
    THEN <<>>
    ELSE <<c>> \o forEachPosMap(pos, pos[c].next)

Range(s) == { s[i] : i \in 1 .. Len(s) }

FindById(map, canId) ==
  LET hits == { i \in Range(forEachCanMap(map)) : map[i].canId = canId }
  IN IF hits = {} THEN NoMap ELSE Min(hits)

\* ------------------------------------------------------------ ClearMap
ClearMap(map) == [ i \in MsgIdx |-> [map[i] EXCEPT !.first = MAX_ITEMS] ]

ClearPos(pos) == [ i \in 0 .. MAX_ITEMS |-> [pos[i] EXCEPT !.next = ITEM_UNSET] ]

\* ------------------------------------------------------------ Add
\* Last slot of the chain that starts at idx (precedingItem), NoItem if none.
RECURSIVE PrecedingItem(_, _, _)
PrecedingItem(pos, idx, prev) ==
  IF idx = MAX_ITEMS THEN prev ELSE PrecedingItem(pos, pos[idx].next, idx)

Add(map, pos, param, canId, offsetBits, length, gain, offset) ==
  IF canId > MAX_CAN_ID THEN [map |-> map, pos |-> pos, ret |-> CAN_ERR_INVALID_ID]
  ELSE IF offsetBits > 63 THEN [map |-> map, pos |-> pos, ret |-> CAN_ERR_INVALID_OFS]
  ELSE IF length > 32 THEN [map |-> map, pos |-> pos, ret |-> CAN_ERR_INVALID_LEN]
  ELSE
    LET found == FindById(map, canId)
        freeMaps == { i \in MsgIdx : map[i].first = MAX_ITEMS }
        existingMap == IF found # NoMap THEN found
                       ELSE IF freeMaps = {} THEN NoMap ELSE Min(freeMaps)
    IN IF existingMap = NoMap
         THEN [map |-> map, pos |-> pos, ret |-> CAN_ERR_MAXMESSAGES]
         ELSE
           LET map1 == IF found = NoMap
                         THEN [map EXCEPT ![existingMap].canId = canId]
                         ELSE map
               freeItems == { i \in ItemIdx : pos[i].next = ITEM_UNSET }
           IN IF freeItems = {}
                THEN [map |-> map1, pos |-> pos, ret |-> CAN_ERR_MAXITEMS]
                ELSE
                  LET freeIndex == Min(freeItems)
                      precedingItem == PrecedingItem(pos, map1[existingMap].first, NoItem)
                      pos1 == [pos EXCEPT ![freeIndex] =
                                 [mapParam |-> param, gain |-> gain, offset |-> offset,
                                  offsetBits |-> offsetBits, numBits |-> length,
                                  next |-> MAX_ITEMS]]
                      map2 == IF precedingItem = NoItem
                                THEN [map1 EXCEPT ![existingMap].first = freeIndex]
                                ELSE map1
                      pos2 == IF precedingItem = NoItem
                                THEN pos1
                                ELSE [pos1 EXCEPT ![precedingItem].next = freeIndex]
                  IN [map |-> map2, pos |-> pos2, ret |-> Len(forEachCanMap(map2))]

\* ------------------------------------------------------------ RemoveFromMap
\* The inner loop over one chain.  s.hits counts the executions of the
\* matching branch; the source keeps no such count (removed stays 0).
RECURSIVE RemovePos(_, _, _, _, _)
RemovePos(s, m, curPos, lastPosMap, param) ==
  IF s.pos[curPos].next = ITEM_UNSET
    THEN s
    ELSE
      LET s1 == IF s.pos[curPos].mapParam # param THEN s
                ELSE IF lastPosMap # NoItem
                  THEN [s EXCEPT !.pos[lastPosMap].next = s.pos[curPos].next,
                                 !.hits = @ + 1]
                  ELSE [s EXCEPT !.map[m].first = s.pos[curPos].next,
                                 !.hits = @ + 1]
      IN RemovePos(s1, m, s1.pos[curPos].next, curPos, param)

RECURSIVE RemoveMaps(_, _, _)
RemoveMaps(s, m, param) ==
  IF m < MAX_MESSAGES /\ s.map[m].first # MAX_ITEMS
    THEN RemoveMaps(RemovePos(s, m, s.map[m].first, NoItem, param), m + 1, param)
    ELSE s

RemoveFromMap(map, pos, param) ==
  LET s == RemoveMaps([map |-> map, pos |-> pos, hits |-> 0], 0, param)
  IN [map |-> s.map, pos |-> s.pos, removed |-> 0, hits |-> s.hits]

\* ------------------------------------------------------------ FindMap
\* <<entry, slot>> of every binding iteration reaches in one table, in
\* table order, then chain order.
RECURSIVE BindingsOf(_, _, _)
BindingsOf(map, pos, ms) ==
  IF ms = <<>> THEN <<>>
  ELSE LET m == Head(ms)
           chain == forEachPosMap(pos, map[m].first)
       IN [ k \in 1 .. Len(chain) |-> <<m, chain[k]>> ] \o BindingsOf(map, pos, Tail(ms))

IterateMap(map, pos) == BindingsOf(map, pos, forEachCanMap(map))

FindMap(send, recv, pos, param) ==
  LET bs == IterateMap(send, pos)
      br == IterateMap(recv, pos)
      hs == { k \in 1 .. Len(bs) : pos[bs[k][2]].mapParam = param }
      hr == { k \in 1 .. Len(br) : pos[br[k][2]].mapParam = param }
  IN IF hs # {}
       THEN LET b == bs[Min(hs)]
            IN [found |-> TRUE, canId |-> send[b[1]].canId, slot |-> b[2], rx |-> FALSE]
       ELSE IF hr # {}
         THEN LET b == br[Min(hr)]
              IN [found |-> TRUE, canId |-> recv[b[1]].canId, slot |-> b[2], rx |-> TRUE]
         ELSE [found |-> FALSE, canId |-> 0, slot |-> NoItem, rx |-> TRUE]

\* ------------------------------------------------------------ dispatcher
MAX_USER_MESSAGES == 4

RegisterUserMessage(ids, canId) ==
  IF Len(ids) < MAX_USER_MESSAGES /\ canId \notin Range(ids)
    THEN Append(ids, canId)
    ELSE ids

\* The consumers: the mapping engine, the NullCallback of canhardware.cpp
\* and a consumer of the application that handles every frame it is given.
MAX_RECV_CALLBACKS == 3

\* AddReceiveCallback that never refuses a consumer.
AddReceiveCallback_NoLimit(cbs, recv) == [list |-> Append(cbs, recv), ret |-> TRUE]

AddReceiveCallback(cbs, recv) ==
  IF Len(cbs) < MAX_RECV_CALLBACKS
    THEN [list |-> Append(cbs, recv), ret |-> TRUE]
    ELSE [list |-> cbs, ret |-> FALSE]

\* recvCallback[i]->HandleRx for consumer c; mapRet is what CanMap::HandleRx
\* returns for the frame.
ConsumerHandles(c, mapRet) == IF c = "map" THEN mapRet ELSE c = "app"

\* CanHardware::HandleRx that goes on after a consumer handled the frame.
RECURSIVE DispatchFrom_NoBreak(_, _, _)
DispatchFrom_NoBreak(cbs, i, mapRet) ==
  IF i > Len(cbs) THEN <<>>
  ELSE <<cbs[i]>> \o DispatchFrom_NoBreak(cbs, i + 1, mapRet)

\* CanHardware::HandleRx: the consumers called, in the order of the calls.
RECURSIVE DispatchFrom(_, _, _)
DispatchFrom(cbs, i, mapRet) ==
  IF i > Len(cbs) THEN <<>>
  ELSE IF ConsumerHandles(cbs[i], mapRet) THEN <<cbs[i]>>
  ELSE <<cbs[i]>> \o DispatchFrom(cbs, i + 1, mapRet)

\* ------------------------------------------------------------ state
UninitMap(j) == [ i \in MsgIdx |-> [canId |-> j, first |-> j] ]

UninitPos(j) ==
  [ i \in 0 .. MAX_ITEMS |->
      [mapParam |-> j, gain |-> j, offset |-> j, offsetBits |-> j, numBits |-> j,
       next |-> j] ]

\* ------------------------------------------------------------ parameter store
\* The parameter store is an external collaborator.  Persistent identifiers
\* are 1 .. PARAM_LAST; PARAM_INVALID follows PARAM_LAST in the enumeration.
PARAM_INVALID == PARAM_LAST + 1
Uids == 1 .. PARAM_LAST
Enumerations == { f \in [Params -> Uids] : \A a, b \in Params : f[a] = f[b] => a = b }
FP_SCALE == 32
PARAM_MAX == 32000

\* Param::GetAttrib(e)->id; g is what the read past the attribute array of
\* an index that is no parameter yields.
GetAttribId(ids, e, g) == IF e \in Params THEN ids[e] ELSE g

\* Param::NumFromId
NumFromId(ids, id) ==
  LET hits == { e \in Params : ids[e] = id }
  IN IF hits = {} THEN PARAM_INVALID ELSE Min(hits)

\* Param::Set: 0 and the value stored, or -1 and nothing stored.
ParamSetOk(e, v) == e \in Params /\ v >= 0 /\ v <= PARAM_MAX

ParamSet(ps, e, v) == IF ParamSetOk(e, v) THEN [ps EXCEPT ![e] = v] ELSE ps

ParamGet(ps, e) == IF e \in Params THEN ps[e] ELSE 0

\* ------------------------------------------------------------ bit codec
RECURSIVE Pow2(_)
Pow2(n) == IF n = 0 THEN 1 ELSE 2 * Pow2(n - 1)

RECURSIVE BitOr(_, _)
BitOr(a, b) ==
  IF a = 0 THEN b
  ELSE IF b = 0 THEN a
  ELSE (IF a % 2 = 1 \/ b % 2 = 1 THEN 1 ELSE 0) + 2 * BitOr(a \div 2, b \div 2)

\* HandleRx, the body of the loop: the float handed to the parameter store.
Unpack(item, data) ==
  LET field == IF item.offsetBits > 31
                 THEN (data[2] \div Pow2(item.offsetBits - 32)) % Pow2(item.numBits)
                 ELSE (data[1] \div Pow2(item.offsetBits)) % Pow2(item.numBits)
  IN (field + item.offset) * item.gain

\* Conversion of a float a / b to int: the fraction is dropped.
TruncDiv(a, b) == IF a >= 0 THEN a \div b ELSE -((-a) \div b)

\* SendAll, the body of the inner loop: data with the binding's field set.
\* The float is the raw fixed-point value over FP_SCALE; the mask keeps the
\* low bits of the two's complement of a negative ival.
Pack(item, ps, data) ==
  LET raw == ParamGet(ps, item.mapParam)
      ival == TruncDiv(raw * item.gain + FP_SCALE * item.offset, FP_SCALE)
                % Pow2(item.numBits)
  IN IF item.offsetBits > 31
       THEN <<data[1], BitOr(data[2], ival * Pow2(item.offsetBits - 32))>>
       ELSE <<BitOr(data[1], ival * Pow2(item.offsetBits)), data[2]>>

RECURSIVE PackChain(_, _, _, _)
PackChain(pos, ps, chain, data) ==
  IF chain = <<>> THEN data
  ELSE PackChain(pos, ps, Tail(chain), Pack(pos[Head(chain)], ps, data))

\* SendAll: the frames handed to Send.  The busy flag is read inside the
\* inner loop, before each binding, and ends the whole sweep.
RECURSIVE SendFrom(_, _, _, _, _)
SendFrom(map, pos, ps, saving, ms) ==
  IF ms = <<>> THEN <<>>
  ELSE LET chain == forEachPosMap(pos, map[Head(ms)].first)
       IN IF chain # <<>> /\ saving
            THEN <<>>
            ELSE <<[canId |-> map[Head(ms)].canId,
                    data |-> PackChain(pos, ps, chain, <<0, 0>>)]>>
                 \o SendFrom(map, pos, ps, saving, Tail(ms))

SendAllFrames(map, pos, ps, saving) ==
  SendFrom(map, pos, ps, saving, forEachCanMap(map))

\* HandleRx, mapped frames: the parameter store after the chain was applied.
RECURSIVE UnpackChain(_, _, _, _)
UnpackChain(pos, ps, chain, data) ==
  IF chain = <<>> THEN ps
  ELSE UnpackChain(pos, ParamSet(ps, pos[Head(chain)].mapParam,
                                 Unpack(pos[Head(chain)], data) * FP_SCALE),
                   Tail(chain), data)

\* HandleMapped without the test of the busy flag.
HandleMapped_NoBusyCheck(recv, pos, ps, saving, canId, data) ==
  LET recvMap == FindById(recv, canId)
  IN IF recvMap = NoMap
       THEN [params |-> ps, ret |-> FALSE, sets |-> 0]
       ELSE LET chain == forEachPosMap(pos, recv[recvMap].first)
            IN [params |-> UnpackChain(pos, ps, chain, data), ret |-> TRUE,
                sets |-> Len(chain)]

HandleMapped(recv, pos, ps, saving, canId, data) ==
  IF saving THEN [params |-> ps, ret |-> FALSE, sets |-> 0]
  ELSE LET recvMap == FindById(recv, canId)
       IN IF recvMap = NoMap
            THEN [params |-> ps, ret |-> FALSE, sets |-> 0]
            ELSE LET chain == forEachPosMap(pos, recv[recvMap].first)
                 IN [params |-> UnpackChain(pos, ps, chain, data), ret |-> TRUE,
                     sets |-> Len(chain)]

\* ------------------------------------------------------------ persistence
\* ReplaceParamEnumByUid / ReplaceParamUidByEnum over the bindings bs that
\* forEachCanMap and forEachPosMap reach, in that order.
RECURSIVE EnumToUidEach(_, _, _, _)
EnumToUidEach(pos, bs, ids, g) ==
  IF bs = <<>> THEN pos
  ELSE LET c == Head(bs)[2]
       IN EnumToUidEach([pos EXCEPT ![c].mapParam = GetAttribId(ids, pos[c].mapParam, g)],
                        Tail(bs), ids, g)

ReplaceParamEnumByUid(map, pos, ids, g) == EnumToUidEach(pos, IterateMap(map, pos), ids, g)

RECURSIVE UidToEnumEach(_, _, _)
UidToEnumEach(pos, bs, ids) ==
  IF bs = <<>> THEN pos
  ELSE LET c == Head(bs)[2]
       IN UidToEnumEach([pos EXCEPT ![c].mapParam = NumFromId(ids, pos[c].mapParam)],
                        Tail(bs), ids)

\* ReplaceParamUidByEnum that leaves the references as they are.
ReplaceParamUidByEnum_Skipped(map, pos, ids) == pos

ReplaceParamUidByEnum(map, pos, ids) == UidToEnumEach(pos, IterateMap(map, pos), ids)

\* The words of the three regions in the order of the flash layout.
RECURSIVE MapWords(_, _)
MapWords(map, i) ==
  IF i = MAX_MESSAGES THEN <<>>
  ELSE <<map[i].canId, map[i].first>> \o MapWords(map, i + 1)

RECURSIVE PosWords(_, _)
PosWords(pos, i) ==
  IF i = MAX_ITEMS THEN <<>>
  ELSE <<pos[i].gain, pos[i].mapParam, pos[i].offset, pos[i].offsetBits,
         pos[i].numBits, pos[i].next>> \o PosWords(pos, i + 1)

SENDMAP_WORDS == 2 * MAX_MESSAGES
RECVMAP_WORDS == 2 * MAX_MESSAGES
POSMAP_WORDS == 6 * MAX_ITEMS
IMAGE_WORDS == SENDMAP_WORDS + RECVMAP_WORDS + POSMAP_WORDS

\* crc_calculate: the running checksum of the CRC unit after one more word.
CRC_MOD == 65521
CRC_MUL == 31
crc_calculate(crc, w) == (crc * CRC_MUL + w + 1) % CRC_MOD

RECURSIVE CrcFrom(_, _, _, _)
CrcFrom(crc, ws, i, n) ==
  IF i > n THEN crc ELSE CrcFrom(crc_calculate(crc, ws[i]), ws, i + 1, n)

crc_calculate_block(crc, ws, n) == CrcFrom(crc, ws, 1, n)

\* An erased page reads all ones in every word.
ERASED == -1
ErasedPage == [ i \in 1 .. (IMAGE_WORDS + 1) |-> ERASED ]

\* Save from flash_erase_page to flash_lock: the page after the three
\* regions and the checksum returned by the last SaveToFlash were written.
SaveToFlash(send, recv, pos) ==
  LET ws == MapWords(send, 0) \o MapWords(recv, 0) \o PosWords(pos, 0)
  IN Append(ws, crc_calculate_block(0, ws, IMAGE_WORDS))

MapAt(ws, base) ==
  [ i \in MsgIdx |-> [canId |-> ws[base + 2 * i + 1], first |-> ws[base + 2 * i + 2]] ]

PosAt(ws, base, pos) ==
  [ i \in 0 .. MAX_ITEMS |->
      IF i = MAX_ITEMS THEN pos[i]
      ELSE [gain |-> ws[base + 6 * i + 1], mapParam |-> ws[base + 6 * i + 2],
            offset |-> ws[base + 6 * i + 3], offsetBits |-> ws[base + 6 * i + 4],
            numBits |-> ws[base + 6 * i + 5], next |-> ws[base + 6 * i + 6]] ]

\* LoadFromFlash that only looks whether a checksum word was written and
\* never compares it with the checksum of the page.
LoadFromFlash_NoCheck(fl, send, recv, pos, ids) ==
  IF fl[IMAGE_WORDS + 1] # ERASED
    THEN LET s == MapAt(fl, 0)
             r == MapAt(fl, SENDMAP_WORDS)
             p == PosAt(fl, SENDMAP_WORDS + RECVMAP_WORDS, pos)
             p1 == ReplaceParamUidByEnum(s, p, ids)
             p2 == ReplaceParamUidByEnum(r, p1, ids)
         IN [send |-> s, recv |-> r, pos |-> p2, ret |-> 1]
    ELSE [send |-> send, recv |-> recv, pos |-> pos, ret |-> 0]

LoadFromFlash(fl, send, recv, pos, ids) ==
  LET storedCrc == fl[IMAGE_WORDS + 1]
      crc == crc_calculate_block(0, fl, IMAGE_WORDS)
  IN IF storedCrc = crc
       THEN LET s == MapAt(fl, 0)
                r == MapAt(fl, SENDMAP_WORDS)
                p == PosAt(fl, SENDMAP_WORDS + RECVMAP_WORDS, pos)
                p1 == ReplaceParamUidByEnum(s, p, ids)
                p2 == ReplaceParamUidByEnum(r, p1, ids)
            IN [send |-> s, recv |-> r, pos |-> p2, ret |-> 1]
       ELSE [send |-> send, recv |-> recv, pos |-> pos, ret |-> 0]

\* ------------------------------------------------------------ HandleClear
RECURSIVE RegisterEach(_, _, _)
RegisterEach(ids, map, ms) ==
  IF ms = <<>> THEN ids
  ELSE RegisterEach(RegisterUserMessage(ids, map[Head(ms)].canId), map, Tail(ms))

HandleClear(ids, recv) == RegisterEach(ids, recv, forEachCanMap(recv))

\* CanHardware::ClearUserMessages: the list is emptied, then every registered
\* consumer is told; the mapping engine registers the identifiers of the
\* receive entries it visits, the other consumers register none.
RECURSIVE ClearEach(_, _, _, _)
ClearEach(ids, cbs, i, recv) ==
  IF i > Len(cbs) THEN ids
  ELSE ClearEach(IF cbs[i] = "map" THEN HandleClear(ids, recv) ELSE ids, cbs, i + 1, recv)

ClearUserMessages(cbs, recv) == ClearEach(<<>>, cbs, 1, recv)

\* ------------------------------------------------------------ ProcessSDO
\* AddSend and AddRecv as ProcessSDO calls them (offset 0).
AddTo(rx, send, recv, pos, ids, param, canId, offsetBits, length, gain) ==
  IF rx
    THEN LET r == Add(recv, pos, param, canId, offsetBits, length, gain, 0)
         IN [send |-> send, recv |-> r.map, pos |-> r.pos,
             userIds |-> RegisterUserMessage(ids, canId), ret |-> r.ret]
    ELSE LET r == Add(send, pos, param, canId, offsetBits, length, gain, 0)
         IN [send |-> r.map, recv |-> recv, pos |-> r.pos, userIds |-> ids, ret |-> r.ret]

ProcessSDO(send, recv, pos, ps, ids, uids, sdo) ==
  LET same == [send |-> send, recv |-> recv, pos |-> pos, params |-> ps, userIds |-> uids]
  IN IF sdo.index >= 8192 /\ sdo.index <= 8193 /\ sdo.subIndex < PARAM_LAST
       THEN LET paramIdx == IF sdo.index = 8193 THEN NumFromId(ids, sdo.subIndex)
                            ELSE sdo.subIndex
            IN IF sdo.cmd = SDO_WRITE
                 THEN IF ParamSetOk(paramIdx, sdo.data)
                        THEN [same EXCEPT !.params = ParamSet(ps, paramIdx, sdo.data)]
                             @@ [reply |-> [sdo EXCEPT !.cmd = SDO_WRITE_REPLY]]
                        ELSE same @@ [reply |-> [sdo EXCEPT !.cmd = SDO_ABORT,
                                                            !.data = SDO_ERR_RANGE]]
                 ELSE IF sdo.cmd = SDO_READ
                   THEN same @@ [reply |-> [sdo EXCEPT !.cmd = SDO_READ_REPLY,
                                                       !.data = ParamGet(ps, paramIdx)]]
                   ELSE same @@ [reply |-> sdo]
       ELSE IF sdo.index >= 12288 /\ sdo.index < 18432 /\ sdo.subIndex < PARAM_LAST
         THEN IF sdo.cmd = SDO_WRITE
                THEN LET r == AddTo((sdo.index \div 16384) % 2 = 1, send, recv, pos, uids,
                                    sdo.subIndex, sdo.index % 2048, sdo.data % 256,
                                    (sdo.data \div 256) % 256, sdo.data \div 65536)
                     IN [send |-> r.send, recv |-> r.recv, pos |-> r.pos, params |-> ps,
                         userIds |-> r.userIds,
                         reply |-> IF r.ret >= 0
                                     THEN [sdo EXCEPT !.cmd = SDO_WRITE_REPLY]
                                     ELSE [sdo EXCEPT !.cmd = SDO_ABORT,
                                                      !.data = SDO_ERR_RANGE]]
                ELSE same @@ [reply |-> sdo]
         ELSE same @@ [reply |-> [sdo EXCEPT !.cmd = SDO_ABORT, !.data = SDO_ERR_INVIDX]]

\* ------------------------------------------------------------ state
\* Last operation: its name; param, the parameter it was given (HandleRx: the
\* identifier); kind, the class of its arguments (add: "ok", "id", "ofs",
\* "len" for the first limit exceeded; remove: "adds" when only adds built
\* the tables; frames and the send sweep: "busy" while a save runs); ret,
\* its return value; aux, what it met (add: the credit before the call;
\* remove: the bindings that referenced the parameter; HandleRx: the number
\* of parameter updates).
\* rx and id: the direction and the identifier an add was given; req: the
\* remote-configuration request a frame on 0x600 + nodeId carried; called:
\* the consumers the dispatcher handed the frame to, in the order of the calls.
NoReq == [cmd |-> 0, index |-> 0, subIndex |-> 0, data |-> 0]

NoOp ==
  [name |-> "none", param |-> 0, kind |-> "ok", ret |-> 0, aux |-> 0,
   rx |-> FALSE, id |-> 0, req |-> NoReq, called |-> <<>>]

NoSnap == [send |-> <<>>, recv |-> <<>>, pos |-> <<>>, ids |-> <<>>]

Init ==
  \E j \in Junk :
    /\ canSendMap = ClearMap(UninitMap(j))
    /\ canRecvMap = ClearMap(UninitMap(j))
    /\ canPosMap = ClearPos(UninitPos(j))
    /\ isSaving = FALSE
    /\ flash = ErasedPage
    /\ paramIds = [ e \in Params |-> e + 1 ]
    /\ params = [ e \in Params |-> 0 ]
    /\ userIds = <<>>
    /\ recvCallback = AddReceiveCallback(<<>>, "map").list
    /\ sent = <<>>
    /\ op = NoOp
    /\ snap = NoSnap
    /\ addsOnly = TRUE
    /\ credit = 0
    /\ steps = 0

PoolFull(pos) == \A i \in ItemIdx : pos[i].next # ITEM_UNSET

ArgKind(canId, a) ==
  IF canId > MAX_CAN_ID THEN "id"
  ELSE IF a[1] > 63 THEN "ofs"
  ELSE IF a[2] > 32 THEN "len"
  ELSE "ok"

\* The table-editing calls come from the context that also runs save.
AddSendOver(calls) ==
  \E call \in calls :
    LET param == call[1]
        canId == call[2]
        a == call[3]
        r == Add(canSendMap, canPosMap, param, canId, a[1], a[2], a[3], a[4])
    IN /\ ~isSaving
       /\ canSendMap' = r.map
       /\ canPosMap' = r.pos
       /\ sent' = <<>>
       /\ op' = [name |-> "Add", param |-> param, kind |-> ArgKind(canId, a),
                 ret |-> r.ret, aux |-> credit, rx |-> FALSE, id |-> canId,
                 req |-> NoReq, called |-> <<>>]
       /\ credit' = IF credit > 0 THEN credit - 1 ELSE 0
       /\ UNCHANGED <<recvCallback, canRecvMap, isSaving, flash, paramIds, params, userIds, snap,
                      addsOnly>>

AddRecvOver(calls) ==
  \E call \in calls :
    LET param == call[1]
        canId == call[2]
        a == call[3]
        r == Add(canRecvMap, canPosMap, param, canId, a[1], a[2], a[3], a[4])
    IN /\ ~isSaving
       /\ canRecvMap' = r.map
       /\ canPosMap' = r.pos
       /\ userIds' = RegisterUserMessage(userIds, canId)
       /\ sent' = <<>>
       /\ op' = [name |-> "Add", param |-> param, kind |-> ArgKind(canId, a),
                 ret |-> r.ret, aux |-> credit, rx |-> TRUE, id |-> canId,
                 req |-> NoReq, called |-> <<>>]
       /\ credit' = IF credit > 0 THEN credit - 1 ELSE 0
       /\ UNCHANGED <<recvCallback, canSendMap, isSaving, flash, paramIds, params, snap, addsOnly>>

AddSend == AddSendOver(AddCalls)

AddRecv == AddRecvOver(AddCalls)

\* Number of bindings that reference param in the chains of all entries
\* whose head is not MAX_ITEMS, visited or not.
RefsIn(map, pos, param) ==
  LET nonFree == { i \in MsgIdx : map[i].first # MAX_ITEMS }
      slots == UNION { Range(forEachPosMap(pos, map[i].first)) : i \in nonFree }
  IN Cardinality({ s \in slots : pos[s].mapParam = param })

Remove ==
  \E param \in Params :
    LET rs == RemoveFromMap(canSendMap, canPosMap, param)
        rr == RemoveFromMap(canRecvMap, rs.pos, param)
    IN /\ ~isSaving
       /\ canSendMap' = rs.map
       /\ canRecvMap' = rr.map
       /\ canPosMap' = rr.pos
       /\ sent' = <<>>
       /\ op' = [name |-> "Remove", param |-> param,
                 kind |-> IF addsOnly THEN "adds" ELSE "any",
                 ret |-> rs.removed + rr.removed,
                 aux |-> RefsIn(canSendMap, canPosMap, param)
                         + RefsIn(canRecvMap, canPosMap, param),
                 rx |-> FALSE, id |-> 0, req |-> NoReq, called |-> <<>>]
       /\ credit' = IF PoolFull(canPosMap) THEN rs.hits + rr.hits ELSE 0
       /\ addsOnly' = FALSE
       /\ UNCHANGED <<recvCallback, isSaving, flash, paramIds, params, userIds, snap>>

\* Clear, with ClearUserMessages and the HandleClear it calls back.
Clear ==
  /\ ~isSaving
  /\ canSendMap' = ClearMap(canSendMap)
  /\ canRecvMap' = ClearMap(canRecvMap)
  /\ canPosMap' = ClearPos(canPosMap)
  /\ userIds' = HandleClear(<<>>, ClearMap(canRecvMap))
  /\ sent' = <<>>
  /\ op' = [NoOp EXCEPT !.name = "Clear"]
  /\ credit' = 0
  /\ addsOnly' = TRUE
  /\ UNCHANGED <<recvCallback, isSaving, flash, paramIds, params, snap>>

\* What GetAttrib may yield for the references of the visited bindings that
\* are no parameter: any identifier or none; one value when all are parameters.
AttribGarbage(send, recv, pos) ==
  LET bs == IterateMap(send, pos) \o IterateMap(recv, pos)
  IN IF \A k \in 1 .. Len(bs) : pos[bs[k][2]].mapParam \in Params
       THEN {0}
       ELSE Uids \cup {0}

\* Save up to flash_lock: the flag is set, the references become
\* persistent identifiers and the page is written.
SaveBegin ==
  \E g \in AttribGarbage(canSendMap, canRecvMap, canPosMap) :
    LET p1 == ReplaceParamEnumByUid(canSendMap, canPosMap, paramIds, g)
        p2 == ReplaceParamEnumByUid(canRecvMap, p1, paramIds, g)
    IN /\ ~isSaving
       /\ isSaving' = TRUE
       /\ canPosMap' = p2
       /\ flash' = SaveToFlash(canSendMap, canRecvMap, p2)
       /\ snap' = [send |-> canSendMap, recv |-> canRecvMap, pos |-> canPosMap,
                   ids |-> paramIds]
       /\ sent' = <<>>
       /\ op' = [NoOp EXCEPT !.name = "SaveBegin"]
       /\ credit' = 0
       /\ UNCHANGED <<recvCallback, canSendMap, canRecvMap, paramIds, params, userIds, addsOnly>>

\* Save after flash_lock: the references become enumeration indices again
\* and the flag is cleared.
SaveEnd ==
  LET p1 == ReplaceParamUidByEnum(canSendMap, canPosMap, paramIds)
      p2 == ReplaceParamUidByEnum(canRecvMap, p1, paramIds)
  IN /\ isSaving
     /\ isSaving' = FALSE
     /\ canPosMap' = p2
     /\ sent' = <<>>
     /\ op' = [NoOp EXCEPT !.name = "Save"]
     /\ credit' = 0
     /\ UNCHANGED <<recvCallback, canSendMap, canRecvMap, flash, paramIds, params, userIds, snap,
                    addsOnly>>

\* Save as one step, with no frame delivered while it runs.
Save ==
  \E g \in AttribGarbage(canSendMap, canRecvMap, canPosMap) :
    LET p1 == ReplaceParamEnumByUid(canSendMap, canPosMap, paramIds, g)
        p2 == ReplaceParamEnumByUid(canRecvMap, p1, paramIds, g)
        p3 == ReplaceParamUidByEnum(canSendMap, p2, paramIds)
        p4 == ReplaceParamUidByEnum(canRecvMap, p3, paramIds)
    IN /\ ~isSaving
       /\ canPosMap' = p4
       /\ flash' = SaveToFlash(canSendMap, canRecvMap, p2)
       /\ snap' = [send |-> canSendMap, recv |-> canRecvMap, pos |-> canPosMap,
                   ids |-> paramIds]
       /\ sent' = <<>>
       /\ op' = [NoOp EXCEPT !.name = "Save"]
       /\ credit' = 0
       /\ UNCHANGED <<recvCallback, canSendMap, canRecvMap, isSaving, paramIds, params, userIds,
                      addsOnly>>

\* The lowest bit of one word of a page that holds a valid image flips: a
\* word of the send table, of the receive table, the first and the last word
\* of the pool, or the checksum.
CorruptWords ==
  { 1, SENDMAP_WORDS + 2, SENDMAP_WORDS + RECVMAP_WORDS + 2, IMAGE_WORDS, IMAGE_WORDS + 1 }

FlashCorrupt ==
  /\ ~isSaving
  /\ flash[IMAGE_WORDS + 1] = crc_calculate_block(0, flash, IMAGE_WORDS)
  /\ \E i \in CorruptWords :
    /\ flash' = [flash EXCEPT ![i] = IF @ % 2 = 0 THEN @ + 1 ELSE @ - 1]
    /\ sent' = <<>>
    /\ op' = [NoOp EXCEPT !.name = "FlashCorrupt"]
    /\ credit' = 0
    /\ UNCHANGED <<recvCallback, canSendMap, canRecvMap, canPosMap, isSaving, paramIds, params,
                   userIds, snap, addsOnly>>

\* Power cycle: the constructor runs on uninitialised memory, possibly in a
\* firmware build with a reordered enumeration.
Reboot ==
  \E j \in Junk, ids \in Enumerations :
    LET r == LoadFromFlash(flash, ClearMap(UninitMap(j)), ClearMap(UninitMap(j)),
                           ClearPos(UninitPos(j)), ids)
    IN /\ ~isSaving
       /\ canSendMap' = r.send
       /\ canRecvMap' = r.recv
       /\ canPosMap' = r.pos
       /\ paramIds' = ids
       /\ params' = [ e \in Params |-> 0 ]
       /\ userIds' = HandleClear(<<>>, r.recv)
       /\ sent' = <<>>
       /\ op' = [NoOp EXCEPT !.name = "Reboot", !.ret = r.ret]
       /\ credit' = 0
       /\ addsOnly' = FALSE
       /\ recvCallback' = AddReceiveCallback(<<>>, "map").list
       /\ UNCHANGED <<isSaving, flash, snap>>

\* ------------------------------------------------------------ frames
SdoId == SDO_REQ_BASE + nodeId
\* Payloads of mapped frames.
FrameData == { <<171, 4608>> }
\* Remote-configuration requests: mapping writes for both directions, one
\* with a width of 33, parameter writes in and out of range, reads by index
\* and by identifier, a command that is neither, an index outside all ranges,
\* a read of the mapping range.
SdoRequests ==
  { [cmd |-> SDO_WRITE, index |-> 12288 + FirstCanId, subIndex |-> 1, data |-> 67584],
    [cmd |-> SDO_WRITE, index |-> 16384 + FirstCanId, subIndex |-> 0, data |-> 67584],
    [cmd |-> SDO_WRITE, index |-> 16384 + FirstCanId + 1, subIndex |-> 0, data |-> 73984],
    [cmd |-> SDO_WRITE, index |-> 8192, subIndex |-> 0, data |-> 160],
    [cmd |-> SDO_WRITE, index |-> 8192, subIndex |-> 0, data |-> 64000],
    [cmd |-> SDO_READ, index |-> 8192, subIndex |-> 0, data |-> 0],
    [cmd |-> SDO_READ, index |-> 8193, subIndex |-> 1, data |-> 0],
    [cmd |-> SDO_ABORT, index |-> 8192, subIndex |-> 0, data |-> 0],
    [cmd |-> SDO_WRITE, index |-> 4096, subIndex |-> 0, data |-> 0],
    [cmd |-> SDO_READ, index |-> 12288 + FirstCanId, subIndex |-> 0, data |-> 0] }

\* CanHardware::HandleRx for a frame that is no remote-configuration
\* request; ret and aux are those of CanMap::HandleRx.
HandleRxOver(frames) ==
  \E frame \in frames :
    LET canId == frame[1]
        data == frame[2]
        r == HandleMapped(canRecvMap, canPosMap, params, isSaving, canId, data)
        calls == DispatchFrom(recvCallback, 1, r.ret)
        reached == "map" \in Range(calls)
    IN /\ params' = IF reached THEN r.params ELSE params
       /\ sent' = <<>>
       /\ op' = [name |-> "HandleRx", param |-> canId,
                 kind |-> IF isSaving THEN "busy" ELSE "idle",
                 ret |-> IF reached /\ r.ret THEN 1 ELSE 0,
                 aux |-> IF reached THEN r.sets ELSE 0,
                 rx |-> FALSE, id |-> 0, req |-> NoReq, called |-> calls]
       /\ credit' = 0
       /\ UNCHANGED <<recvCallback, canSendMap, canRecvMap, canPosMap, isSaving, flash, paramIds,
                      userIds, snap, addsOnly>>

HandleRx == HandleRxOver(CanIds \X FrameData)

\* The same, for a frame on 0x600 + nodeId: CanMap::HandleRx runs ProcessSDO
\* and returns true.
HandleSdo ==
  \E sdo \in SdoRequests :
    LET r == ProcessSDO(canSendMap, canRecvMap, canPosMap, params, paramIds, userIds, sdo)
        calls == DispatchFrom(recvCallback, 1, TRUE)
        reached == "map" \in Range(calls)
    IN /\ canSendMap' = IF reached THEN r.send ELSE canSendMap
       /\ canRecvMap' = IF reached THEN r.recv ELSE canRecvMap
       /\ canPosMap' = IF reached THEN r.pos ELSE canPosMap
       /\ params' = IF reached THEN r.params ELSE params
       /\ userIds' = IF reached THEN r.userIds ELSE userIds
       /\ sent' = IF reached THEN <<[canId |-> SDO_REP_BASE + nodeId, data |-> r.reply]>>
                  ELSE <<>>
       /\ op' = [name |-> "HandleSdo", param |-> 0,
                 kind |-> IF isSaving THEN "busy" ELSE "idle",
                 ret |-> IF reached THEN 1 ELSE 0, aux |-> 0,
                 rx |-> FALSE, id |-> 0, req |-> sdo, called |-> calls]
       /\ credit' = 0
       /\ UNCHANGED <<recvCallback, isSaving, flash, paramIds, snap, addsOnly>>

\* A consumer of the application registers with the dispatcher.
RegisterConsumer ==
  \E c \in {"app", "nul"} :
    LET r == AddReceiveCallback(recvCallback, c)
    IN /\ recvCallback' = r.list
       /\ sent' = <<>>
       /\ op' = [NoOp EXCEPT !.name = "Register", !.ret = IF r.ret THEN 1 ELSE 0,
                              !.aux = Len(recvCallback)]
       /\ credit' = 0
       /\ UNCHANGED <<canSendMap, canRecvMap, canPosMap, isSaving, flash, paramIds,
                      params, userIds, snap, addsOnly>>

\* A consumer, or the application, clears the acceptance list.
ClearByConsumer ==
  /\ userIds' = ClearUserMessages(recvCallback, canRecvMap)
  /\ sent' = <<>>
  /\ op' = [NoOp EXCEPT !.name = "ClearUserMessages", !.aux = Len(userIds)]
  /\ credit' = 0
  /\ UNCHANGED <<recvCallback, canSendMap, canRecvMap, canPosMap, isSaving, flash,
                 paramIds, params, snap, addsOnly>>

SendAll ==
  /\ sent' = SendAllFrames(canSendMap, canPosMap, params, isSaving)
  /\ op' = [name |-> "SendAll", param |-> 0,
            kind |-> IF isSaving THEN "busy" ELSE "idle", ret |-> 0, aux |-> 0,
            rx |-> FALSE, id |-> 0, req |-> NoReq, called |-> <<>>]
  /\ credit' = 0
  /\ UNCHANGED <<recvCallback, canSendMap, canRecvMap, canPosMap, isSaving, flash, paramIds, params,
                 userIds, snap, addsOnly>>

\* ------------------------------------------------------------ codec runs
\* <<offsetBits, length, gain, offset>> of fields inside one word, and the
\* values of the parameter.
CodecFields == {0, 8, 40} \X {4, 8} \X {1, 2, 3} \X {-1, 0, 1, 2}
CodecValues == 0 .. 6

\* The state after construction, AddSend and AddRecv of the first parameter
\* with one field on one identifier, and the parameter set to a value.
InitCodec ==
  \E f \in CodecFields, v \in CodecValues :
    LET s == Add(ClearMap(UninitMap(0)), ClearPos(UninitPos(0)), 0, FirstCanId,
                 f[1], f[2], f[3], f[4])
        r == Add(ClearMap(UninitMap(0)), s.pos, 0, FirstCanId, f[1], f[2], f[3], f[4])
    IN /\ canSendMap = s.map
       /\ canRecvMap = r.map
       /\ canPosMap = r.pos
       /\ isSaving = FALSE
       /\ flash = ErasedPage
       /\ paramIds = [ e \in Params |-> e + 1 ]
       /\ params = [ e \in Params |-> IF e = 0 THEN v * FP_SCALE ELSE 0 ]
       /\ userIds = RegisterUserMessage(<<>>, FirstCanId)
       /\ recvCallback = AddReceiveCallback(<<>>, "map").list
       /\ sent = <<>>
       /\ op = NoOp
       /\ snap = NoSnap
       /\ addsOnly = TRUE
       /\ credit = 0
       /\ steps = 0

\* The frames of the last send sweep, received again.
SentFrames == { <<sent[k].canId, sent[k].data>> : k \in 1 .. Len(sent) }

\* ------------------------------------------------------------ specifications
Step(n) == steps < n /\ steps' = steps + 1

Next ==
  \/ Step(MaxOps) /\ AddSend
  \/ Step(MaxOps) /\ AddRecv
  \/ Step(MaxOps) /\ Remove
  \/ Step(MaxOps) /\ Clear
  \/ Step(MaxOps) /\ SaveBegin
  \/ Step(MaxOps) /\ SaveEnd
  \/ Step(MaxOps) /\ FlashCorrupt
  \/ Step(MaxOps) /\ Reboot
  \/ Step(MaxOps) /\ HandleRx
  \/ Step(MaxOps) /\ HandleSdo
  \/ Step(MaxOps) /\ SendAll

Spec == Init /\ [][Next]_vars

\* The table-editing calls alone.
NextTable ==
  \/ Step(MaxTableOps) /\ AddSendOver(TableAddCalls)
  \/ Step(MaxTableOps) /\ AddRecvOver(TableAddCalls)
  \/ Step(MaxTableOps) /\ Remove
  \/ Step(MaxTableOps) /\ Clear

SpecTable == Init /\ [][NextTable]_vars

\* Table editing, save, corruption of the page and power cycles, with no
\* frame delivered while the page is written.
NextPersist ==
  \/ Step(MaxPersistOps) /\ AddSendOver(FewAddCalls)
  \/ Step(MaxPersistOps) /\ AddRecvOver(FewAddCalls)
  \/ Step(MaxPersistOps) /\ Remove
  \/ Step(MaxPersistOps) /\ Save
  \/ Step(MaxPersistOps) /\ FlashCorrupt
  \/ Step(MaxPersistOps) /\ Reboot

SpecPersist == Init /\ [][NextPersist]_vars

\* Frames of both kinds delivered to a dispatcher with further consumers,
\* with and without a save in progress.
NextDispatch ==
  \/ Step(MaxDispatchOps) /\ RegisterConsumer
  \/ Step(MaxDispatchOps) /\ AddRecvOver(FewAddCalls)
  \/ Step(MaxDispatchOps) /\ SaveBegin
  \/ Step(MaxDispatchOps) /\ SaveEnd
  \/ Step(MaxDispatchOps) /\ HandleRx
  \/ Step(MaxDispatchOps) /\ HandleSdo

SpecDispatch == Init /\ [][NextDispatch]_vars

\* Receive-direction adds, removes, both kinds of clear, save and startup.
NextAccept ==
  \/ Step(MaxAcceptOps) /\ AddRecvOver(FewAddCalls)
  \/ Step(MaxAcceptOps) /\ Remove
  \/ Step(MaxAcceptOps) /\ Clear
  \/ Step(MaxAcceptOps) /\ ClearByConsumer
  \/ Step(MaxAcceptOps) /\ Save
  \/ Step(MaxAcceptOps) /\ Reboot

SpecAccept == Init /\ [][NextAccept]_vars

\* The send sweep and the reception of its frames, for one field and value.
NextCodec ==
  \/ Step(MaxCodecOps) /\ SendAll
  \/ Step(MaxCodecOps) /\ HandleRxOver(SentFrames)

SpecCodec == InitCodec /\ [][NextCodec]_vars

\* ------------------------------------------------------------ claims
NonFree(map) == { i \in MsgIdx : map[i].first # MAX_ITEMS }

\* C1: after remove(P) on tables built by adds alone, findFirst(P) reports
\* not found and no chain of either table holds a binding that references P.
C1_RemovedNeverFound ==
  (op.name = "Remove" /\ op.kind = "adds")
    => /\ ~FindMap(canSendMap, canRecvMap, canPosMap, op.param).found
       /\ RefsIn(canSendMap, canPosMap, op.param) = 0
       /\ RefsIn(canRecvMap, canPosMap, op.param) = 0

\* C2: a message identifier occurs in at most one non-free entry of the send
\* table and in at most one non-free entry of the receive table.
IdOnce(map) ==
  \A i, j \in NonFree(map) : map[i].canId = map[j].canId => i = j

C2_IdOncePerDirection == IdOnce(canSendMap) /\ IdOnce(canRecvMap)

\* C3: after a remove, every non-free entry of a table, also one stored
\* behind an emptied entry, is still visited: its identifier is found, its
\* bindings are found by findFirst, and the send sweep sends its frame.
StillVisited(map) ==
  \A i \in NonFree(map) :
    /\ i \in Range(forEachCanMap(map))
    /\ FindById(map, map[i].canId) # NoMap
    /\ \A c \in Range(forEachPosMap(canPosMap, map[i].first)) :
         FindMap(canSendMap, canRecvMap, canPosMap, canPosMap[c].mapParam).found

C3_OtherEntriesStillVisited ==
  op.name = "Remove"
    => /\ StillVisited(canSendMap)
       /\ StillVisited(canRecvMap)
       /\ \A i \in NonFree(canSendMap) :
            \E k \in 1 .. Len(SendAllFrames(canSendMap, canPosMap, params, FALSE)) :
              SendAllFrames(canSendMap, canPosMap, params, FALSE)[k].canId
                = canSendMap[i].canId

\* C4: after a remove that unlinked k >= 1 bindings from a full pool, none of
\* the next k adds with valid arguments fails for lack of a pool slot.
C4_FreedSlotReusable ==
  (op.name = "Add" /\ op.kind = "ok" /\ op.aux > 0) => op.ret # CAN_ERR_MAXITEMS

\* C5: remove(P) returns the number of bindings that referenced P, over both
\* directions.
C5_RemoveReturnsCount == op.name = "Remove" => op.ret = op.aux

\* C6: while the busy flag is set, a frame that is no remote-configuration
\* request updates no parameter and is not handled, and the send sweep sends
\* no frame.
C6_BusySkips ==
  /\ (op.name = "HandleRx" /\ op.kind = "busy") => (op.ret = 0 /\ op.aux = 0)
  /\ (op.name = "SendAll" /\ op.kind = "busy") => sent = <<>>

\* C6 happens: the sweep ran during a save with a message to send.
C6_Witness ==
  /\ op.name = "SendAll"
  /\ op.kind = "busy"
  /\ isSaving
  /\ forEachCanMap(canSendMap) # <<>>

\* C7: a load of the page a save wrote, under the enumeration of the save,
\* leaves both tables and the pool as they were when the save began.
C7_SaveLoadRoundTrip ==
  (op.name = "Reboot" /\ op.ret = 1 /\ paramIds = snap.ids)
    => /\ canSendMap = snap.send
       /\ canRecvMap = snap.recv
       /\ \A i \in ItemIdx : canPosMap[i] = snap.pos[i]
       /\ canPosMap[MAX_ITEMS].next = ITEM_UNSET

\* C7 happens: a chain of two bindings went through save and load.
C7_Witness ==
  /\ op.name = "Reboot"
  /\ op.ret = 1
  /\ paramIds = snap.ids
  /\ \E i \in NonFree(canSendMap) \cup NonFree(canRecvMap) :
       \/ Len(forEachPosMap(canPosMap, canSendMap[i].first)) >= 2
       \/ Len(forEachPosMap(canPosMap, canRecvMap[i].first)) >= 2

\* C8: after a save and a load under any enumeration, every binding in the
\* chain of a non-free entry, visited or not, references the logical
\* parameter (persistent identifier) it referenced when the save began.
SameLogicalParam(map) ==
  \A i \in NonFree(map) :
    \A c \in Range(forEachPosMap(canPosMap, map[i].first)) :
      /\ canPosMap[c].mapParam \in Params
      /\ snap.pos[c].mapParam \in Params
      /\ paramIds[canPosMap[c].mapParam] = snap.ids[snap.pos[c].mapParam]

C8_RemapKeepsLogicalParam ==
  (op.name = "Reboot" /\ op.ret = 1)
    => (SameLogicalParam(canSendMap) /\ SameLogicalParam(canRecvMap))

\* C9: load copies the page only if the checksum over its three regions
\* equals the stored one; otherwise both tables and the pool stay empty.
C9_LoadOnlyIfChecksum ==
  op.name = "Reboot"
    => IF flash[IMAGE_WORDS + 1] = crc_calculate_block(0, flash, IMAGE_WORDS)
         THEN /\ op.ret = 1
              /\ canSendMap = MapAt(flash, 0)
              /\ canRecvMap = MapAt(flash, SENDMAP_WORDS)
         ELSE /\ op.ret = 0
              /\ NonFree(canSendMap) = {}
              /\ NonFree(canRecvMap) = {}
              /\ \A i \in 0 .. MAX_ITEMS : canPosMap[i].next = ITEM_UNSET

\* C9 happens: a page that held bindings was corrupted and then loaded.
C9_Witness ==
  /\ op.name = "Reboot"
  /\ op.ret = 0
  /\ flash # ErasedPage
  /\ snap # NoSnap
  /\ NonFree(snap.send) \cup NonFree(snap.recv) # {}

\* C10: add with an identifier over 0x1FFFFFFF, an offset over 63 or a width
\* over 32 returns the matching code, and an add that returns an error
\* leaves both tables and the pool as they were.
C10_ErrorLeavesTablesUnchanged ==
  [][ op'.name = "Add"
        => /\ op'.kind = "id" => op'.ret = CAN_ERR_INVALID_ID
           /\ op'.kind = "ofs" => op'.ret = CAN_ERR_INVALID_OFS
           /\ op'.kind = "len" => op'.ret = CAN_ERR_INVALID_LEN
           /\ op'.ret < 0 => /\ canSendMap' = canSendMap
                             /\ canRecvMap' = canRecvMap
                             /\ canPosMap' = canPosMap ]_vars

\* The slots that hold the bindings of a table: the chains of its non-free
\* entries.
ChainSlots(map, pos) ==
  UNION { Range(forEachPosMap(pos, map[i].first)) : i \in NonFree(map) }

Bindings(send, recv, pos) ==
  Cardinality(ChainSlots(send, pos) \cup ChainSlots(recv, pos))

IdsHeld(map) == { map[i].canId : i \in NonFree(map) }

\* C11: an add with valid arguments for an identifier its direction does not
\* hold, made while fewer bindings than the pool has slots are chained,
\* succeeds if the direction holds fewer than MAX_MESSAGES identifiers and
\* returns 'too many messages' if it holds MAX_MESSAGES.
C11_MaxMessages ==
  [][ LET map == IF op'.rx THEN canRecvMap ELSE canSendMap
      IN (/\ op'.name = "Add"
          /\ op'.kind = "ok"
          /\ op'.id \notin IdsHeld(map)
          /\ Bindings(canSendMap, canRecvMap, canPosMap) < MAX_ITEMS)
           => IF Cardinality(IdsHeld(map)) < MAX_MESSAGES
                THEN op'.ret > 0
                ELSE op'.ret = CAN_ERR_MAXMESSAGES ]_vars

\* Number of bindings in the chains of the non-free entries of a table.
RECURSIVE ChainLenFrom(_, _, _)
ChainLenFrom(map, pos, i) ==
  IF i = MAX_MESSAGES THEN 0
  ELSE (IF map[i].first = MAX_ITEMS THEN 0 ELSE Len(forEachPosMap(pos, map[i].first)))
       + ChainLenFrom(map, pos, i + 1)

TotalBindings(send, recv, pos) == ChainLenFrom(send, pos, 0) + ChainLenFrom(recv, pos, 0)

\* C12: the bindings of the send chains and of the receive chains together
\* never exceed MAX_ITEMS, and an add with valid arguments that finds an
\* entry for its identifier returns 'too many items' exactly when that total
\* is MAX_ITEMS.
C12_SharedPool ==
  [][ /\ TotalBindings(canSendMap', canRecvMap', canPosMap') <= MAX_ITEMS
      /\ (op'.name = "Add" /\ op'.kind = "ok" /\ op'.ret # CAN_ERR_MAXMESSAGES)
           => (op'.ret = CAN_ERR_MAXITEMS
                 <=> TotalBindings(canSendMap, canRecvMap, canPosMap) = MAX_ITEMS) ]_vars

\* C13: a frame on 0x600 + nodeId, whatever it carries and whether or not a
\* save is in progress, makes the mapping engine send exactly one frame, on
\* 0x580 + nodeId, and handle the frame: it is the last consumer called.
C13_SdoOneReply ==
  op.name = "HandleSdo"
    => /\ Len(sent) = 1
       /\ sent[1].canId = SDO_REP_BASE + nodeId
       /\ op.ret = 1
       /\ op.called # <<>>
       /\ op.called[Len(op.called)] = "map"
       /\ \A k \in 1 .. (Len(op.called) - 1) : op.called[k] # "map"

\* C13 happens: during a save, a request with a command that is neither read
\* nor write arrived at a dispatcher with a consumer behind the mapping engine.
C13_Witness ==
  /\ op.name = "HandleSdo"
  /\ op.kind = "busy"
  /\ isSaving
  /\ op.req.cmd \notin {SDO_WRITE, SDO_READ}
  /\ Len(recvCallback) > Len(op.called)

\* C14: the reply to a remote-configuration request carries command 0x23 or
\* 0x43, or command 0x80 with data 0x06020000 or 0x06090030.
C14_DefiniteOutcome ==
  (op.name = "HandleSdo" /\ sent # <<>>)
    => \/ sent[1].data.cmd \in {SDO_WRITE_REPLY, SDO_READ_REPLY}
       \/ /\ sent[1].data.cmd = SDO_ABORT
          /\ sent[1].data.data \in {SDO_ERR_INVIDX, SDO_ERR_RANGE}

\* A write to the mapping range with a sub-index that is a parameter.
IsMappingWrite(q) ==
  q.cmd = SDO_WRITE /\ q.index >= 12288 /\ q.index < 18432 /\ q.subIndex < PARAM_LAST

\* C15: a mapping write adds parameter = sub-index, identifier = index & 0x7FF,
\* bit offset = data byte 0, bit width = data byte 1 to the receive table if
\* index bit 0x4000 is set and to the send table otherwise; the reply is
\* write-reply exactly when the binding was installed and abort with
\* 0x06090030 exactly when add failed, and then the tables, the pool and the
\* acceptance list are unchanged.
C15_SdoMappingWrite ==
  [][ (op'.name = "HandleSdo" /\ IsMappingWrite(op'.req))
        => LET q == op'.req
               rx == (q.index \div 16384) % 2 = 1
               r == Add(IF rx THEN canRecvMap ELSE canSendMap, canPosMap, q.subIndex,
                        q.index % 2048, q.data % 256, (q.data \div 256) % 256,
                        q.data \div 65536, 0)
               reply == sent'[1].data
           IN /\ r.ret >= 0 => /\ canPosMap' = r.pos
                               /\ canRecvMap' = IF rx THEN r.map ELSE canRecvMap
                               /\ canSendMap' = IF rx THEN canSendMap ELSE r.map
              /\ reply.cmd = SDO_WRITE_REPLY <=> r.ret >= 0
              /\ (reply.cmd = SDO_ABORT /\ reply.data = SDO_ERR_RANGE) <=> r.ret < 0
              /\ r.ret < 0 => /\ canSendMap' = canSendMap
                              /\ canRecvMap' = canRecvMap
                              /\ canPosMap' = canPosMap
                              /\ userIds' = userIds ]_vars

\* The send binding and the receive binding of the first entries, and the
\* value of the parameter the send binding references.
SendItem == canPosMap[canSendMap[0].first]
RecvItem == canPosMap[canRecvMap[0].first]
ValueOf(item) == params[item.mapParam] \div FP_SCALE
IsWhole(item) == params[item.mapParam] % FP_SCALE = 0

\* C16: the send sweep puts trunc((value + offset) * gain), masked to the
\* bit width, at the bit offset of the frame: into the low word for a bit
\* offset up to 31, into the high word otherwise.
C16_PackOffsetThenGain ==
  (op.name = "SendAll" /\ Len(sent) = 1 /\ IsWhole(SendItem))
    => LET b == SendItem
           field == ((ValueOf(b) + b.offset) * b.gain) % Pow2(b.numBits)
       IN sent[1].data = IF b.offsetBits > 31
                           THEN <<0, field * Pow2(b.offsetBits - 32)>>
                           ELSE <<field * Pow2(b.offsetBits), 0>>

\* C17: for a send and a receive binding with the same field, gain and
\* offset, unpacking the frame the send sweep packed from value v yields v
\* when v is a multiple of gain and fits the bit width.
C17_PackUnpackRoundTrip ==
  (/\ op.name = "SendAll"
   /\ Len(sent) = 1
   /\ IsWhole(SendItem)
   /\ [SendItem EXCEPT !.next = 0] = [RecvItem EXCEPT !.next = 0]
   /\ ValueOf(SendItem) % SendItem.gain = 0
   /\ ValueOf(SendItem) < Pow2(SendItem.numBits))
    => Unpack(RecvItem, sent[1].data) = ValueOf(SendItem)

\* C18: the dispatcher calls the consumers in the order of their
\* registration, up to and including the first one that handles the frame,
\* and all of them if none does; a registration made when MAX_RECV_CALLBACKS
\* consumers are registered returns false and leaves the list as it is.
C18_DispatchOrder ==
  [][ /\ op'.name \in {"HandleRx", "HandleSdo"}
           => LET called == op'.called
                  n == Len(called)
              IN /\ n <= Len(recvCallback)
                 /\ called = SubSeq(recvCallback, 1, n)
                 /\ \A k \in 1 .. (n - 1) : ~ConsumerHandles(called[k], op'.ret = 1)
                 /\ n < Len(recvCallback) => ConsumerHandles(called[n], op'.ret = 1)
      /\ op'.name = "Register"
           => IF Len(recvCallback) >= MAX_RECV_CALLBACKS
                THEN op'.ret = 0 /\ recvCallback' = recvCallback
                ELSE /\ op'.ret = 1
                     /\ Len(recvCallback') = Len(recvCallback) + 1
                     /\ SubSeq(recvCallback', 1, Len(recvCallback)) = recvCallback ]_vars

\* C18 happens: with the list full, the second consumer handled a frame the
\* mapping engine did not, and the third was not called.
C18_Witness ==
  /\ op.name = "HandleRx"
  /\ Len(recvCallback) = MAX_RECV_CALLBACKS
  /\ op.called = SubSeq(recvCallback, 1, 2)
  /\ op.ret = 0

\* The links followed from slot idx for at most n steps: whether they end at
\* MAX_ITEMS, and the slots passed.
RECURSIVE EndsIn(_, _, _)
EndsIn(pos, idx, n) ==
  IF idx = MAX_ITEMS THEN TRUE
  ELSE IF n = 0 \/ idx \notin ItemIdx THEN FALSE
  ELSE EndsIn(pos, pos[idx].next, n - 1)

RECURSIVE Reach(_, _, _)
Reach(pos, idx, n) ==
  IF n = 0 \/ idx \notin ItemIdx THEN {}
  ELSE {idx} \cup Reach(pos, pos[idx].next, n - 1)

\* The heads of the non-free entries of both tables.
Heads ==
  { <<"tx", i, canSendMap[i].first>> : i \in NonFree(canSendMap) }
    \cup { <<"rx", i, canRecvMap[i].first>> : i \in NonFree(canRecvMap) }

\* C19: the links from the head of every non-free entry end at MAX_ITEMS
\* within MAX_ITEMS steps, no slot is reached from the heads of two entries,
\* and every slot is marked free or reached from the head of one entry.
C19_ChainsWellFormed ==
  /\ \A h \in Heads : EndsIn(canPosMap, h[3], MAX_ITEMS)
  /\ \A g, h \in Heads :
       g # h => Reach(canPosMap, g[3], MAX_ITEMS) \cap Reach(canPosMap, h[3], MAX_ITEMS) = {}
  /\ \A c \in ItemIdx :
       \/ canPosMap[c].next = ITEM_UNSET
       \/ \E h \in Heads : c \in Reach(canPosMap, h[3], MAX_ITEMS)

\* C20: a frame delivered while the busy flag is set changes neither table
\* nor the pool, and when save clears the flag every binding references the
\* enumeration index it referenced when save set the flag.
C20_NoTableChangeDuringSave ==
  [][ /\ (isSaving /\ op'.name \in {"HandleRx", "HandleSdo"})
           => /\ canSendMap' = canSendMap
              /\ canRecvMap' = canRecvMap
              /\ canPosMap' = canPosMap
      /\ (isSaving /\ ~isSaving')
           => \A c \in ChainSlots(canSendMap', canPosMap')
                        \cup ChainSlots(canRecvMap', canPosMap') :
                canPosMap'[c].mapParam = snap.pos[c].mapParam ]_vars

\* C21: the identifier of every non-free entry of the receive table is in
\* the acceptance list, and so is the identifier of a receive-direction add
\* that returned success.
C21_AcceptanceList ==
  /\ \A i \in NonFree(canRecvMap) : canRecvMap[i].canId \in Range(userIds)
  /\ (op.name = "Add" /\ op.rx /\ op.ret > 0) => op.id \in Range(userIds)
====
